---- MODULE Spec2Model ----
(***************************************************************************)
(* Model of python/cuml/multiclass/one_vs_one.py: OneVsOneClassifier, the  *)
(* array-normalizing adapter around sklearn.multiclass.OneVsOneClassifier. *)
(* Every statement of fit, predict and decision_function is one step; the  *)
(* collaborators (array conversion, output conversion, output-mode scope,  *)
(* the estimator's output-type query, the wrapped library) are operators.  *)
(***************************************************************************)
EXTENDS Integers, Sequences, FiniteSets, TLC

\* ------------------------------------------------------------------ bounds
MaxFeature == 1
MaxLabel == 1

Features == 0..MaxFeature
LabelVals == 0..MaxLabel

\* ------------------------------------------------------------------ arrays
\* An array is a representation tag, a dimension and a buffer.  Host and
\* device arrays store a matrix as a sequence of rows; a data frame stores
\* it as a sequence of columns.
HostRep == "numpy"
SupportedReps == {"numpy", "cupy", "cudf"}
Reps == SupportedReps \cup {"unsupported"}
OutputTypes == {"input", "numpy", "cudf"}
GlobalOutputTypes == {"None", "numpy", "cudf"}

Transpose(m) ==
  IF Len(m) = 0 THEN <<>>
  ELSE [j \in 1..Len(m[1]) |-> [i \in 1..Len(m) |-> m[i][j]]]

\* buffer layout of logical data d (rows, or a vector) in representation r
Layout(r, ndim, d) == IF r = "cudf" /\ ndim = 2 THEN Transpose(d) ELSE d

MkArray(r, ndim, d) == [rep |-> r, ndim |-> ndim, buf |-> Layout(r, ndim, d)]

\* logical data (rows, or a vector) held by array a
Logical(a) == IF a.rep = "cudf" /\ a.ndim = 2 THEN Transpose(a.buf) ELSE a.buf

NoArray == [rep |-> "none", ndim |-> 0, buf |-> <<>>]
SelfVal == [rep |-> "self", ndim |-> 0, buf |-> <<>>]

Matrices == {<<<<a>>, <<b>>>> : a, b \in Features}
\* label vectors, classes numbered from the class of the first sample
Vectors == {<<0, b>> : b \in LabelVals}

FeatureArrays == {MkArray(r, 2, d) : r \in Reps, d \in Matrices}
LabelArrays == {MkArray(r, 1, d) : r \in Reps, d \in Vectors}

\* ------------------------------------------------------- call outcomes
Ok(v) == [ok |-> TRUE, val |-> v, err |-> "none"]
Err(e) == [ok |-> FALSE, val |-> NoArray, err |-> e]

NoOutcome == [kind |-> "none", val |-> NoArray, err |-> "none"]
Returned(v) == [kind |-> "return", val |-> v, err |-> "none"]
Raised(e) == [kind |-> "raise", val |-> NoArray, err |-> e]

\* ------------------------------------------------------- collaborators
\* cuml.common.input_to_host_array: the array in host representation plus
\* provenance (pointer, n_rows, n_cols, dtype); raises on an unsupported
\* representation.
input_to_host_array(a) ==
  IF a.rep \in SupportedReps
  THEN [ok |-> TRUE,
        val |-> <<MkArray(HostRep, a.ndim, Logical(a)), "ptr",
                  Len(Logical(a)),
                  IF a.ndim = 2 THEN Len(Logical(a)[1]) ELSE 1,
                  "dtype">>,
        err |-> "none"]
  ELSE [ok |-> FALSE, val |-> <<NoArray, "ptr", 0, 0, "dtype">>,
        err |-> "TypeError"]

\* one_vs_rest._to_output: a host array converted to representation t
_to_output(a, t) == MkArray(t, a.ndim, Logical(a))

\* cuml.common.memory_utils.using_output_type: entering the scope saves the
\* global setting and installs t; leaving it reinstalls the saved one.
using_output_type_enter(cur, t) == [prev |-> cur, now |-> t]
using_output_type_exit(prev) == prev

\* Base._get_output_type: the global setting when one is set, else the
\* estimator's declared output_type, 'input' meaning the type of the input.
\* For an input of unsupported type the query may raise or name any type.
_get_output_type(est, global, a) ==
  IF global # "None" THEN {Ok(global)}
  ELSE IF est.output_type # "input" THEN {Ok(est.output_type)}
  ELSE IF a.rep \in SupportedReps THEN {Ok(a.rep)}
  ELSE {Err("TypeError")} \cup {Ok(t) : t \in SupportedReps}

\* ------------------------------------------------------- wrapped library
\* sklearn.multiclass.OneVsOneClassifier stands behind these operators: a
\* deterministic classifier on host data (nearest training sample, first
\* on ties), with the fitted/unfitted lifecycle and its own errors.
NotFitted == [is_fitted |-> FALSE, X |-> <<>>, y |-> <<>>]

Abs(n) == IF n < 0 THEN -n ELSE n

RECURSIVE SumDist(_, _, _)
SumDist(r1, r2, k) ==
  IF k = 0 THEN 0 ELSE Abs(r1[k] - r2[k]) + SumDist(r1, r2, k - 1)

Dist(r1, r2) == SumDist(r1, r2, Len(r1))

Nearest(model, row) ==
  CHOOSE i \in 1..Len(model.X) :
    \A j \in 1..Len(model.X) :
      \/ Dist(model.X[i], row) < Dist(model.X[j], row)
      \/ Dist(model.X[i], row) = Dist(model.X[j], row) /\ i <= j

Distinct(v) == {v[i] : i \in 1..Len(v)}

\* super().fit(X, y) on host data
sk_fit(Xd, yd) ==
  IF Cardinality(Distinct(yd)) < 2
  THEN [ok |-> FALSE, model |-> NotFitted, err |-> "ValueError"]
  ELSE [ok |-> TRUE, model |-> [is_fitted |-> TRUE, X |-> Xd, y |-> yd],
        err |-> "none"]

\* super().predict(X) on host data
sk_predict(model, Xd) ==
  IF ~model.is_fitted THEN Err("NotFittedError")
  ELSE Ok(MkArray(HostRep, 1,
                  [i \in 1..Len(Xd) |-> model.y[Nearest(model, Xd[i])]]))

\* super().decision_function(X) on host data: one score per class
sk_decision_function(model, Xd) ==
  IF ~model.is_fitted THEN Err("NotFittedError")
  ELSE Ok(MkArray(HostRep, 2,
                  [i \in 1..Len(Xd) |->
                     [c \in 1..(MaxLabel + 1) |->
                        IF model.y[Nearest(model, Xd[i])] = c - 1
                        THEN 1 ELSE 0]]))

\* ------------------------------------------------------------------ state
VARIABLES
  global_output_type,  \* cuml.global_output_type, the process-wide setting
  estimator,           \* self.estimator: its declared output_type
  fitted,              \* the wrapped library's fitted-model state
  pc,                  \* position of the running call ("idle" between calls)
  op,                  \* the method that is running
  args,                \* the arguments as the caller supplied them
  X, y,                \* the locals X and y (rebound by the conversions)
  out_type,            \* the local out_type of predict / decision_function
  preds,               \* the local preds / df: the wrapped method's result
  prev_output_type,    \* the setting saved by using_output_type
  pending,             \* outcome of the with-body, in flight to the caller
  ret,                 \* what the call hands to its caller
  trace,               \* history: the collaborator calls of the running call
  entry,               \* history: setting and fitted model at call entry
  raised,              \* history: the error a collaborator raised
  train,               \* history: the caller's data of the last fit
  lastPredict          \* history: the previous predict call and its result

vars == <<global_output_type, estimator, fitted, pc, op, args, X, y,
          out_type, preds, prev_output_type, pending, ret, trace, entry,
          raised, train, lastPredict>>

locals == <<X, y, out_type, preds, prev_output_type, pending>>

NoArgs == [X |-> NoArray, y |-> NoArray]
NoEntry == [mode |-> "none", fitted |-> NotFitted]
NoTrain == [set |-> FALSE, host |-> TRUE, X |-> <<>>, y |-> <<>>]
NoPredict == [set |-> FALSE, X |-> NoArray, val |-> NoArray]

Event(e, n, r) ==
  [ev |-> e, name |-> n, reps |-> r, mode |-> global_output_type]

Init ==
  /\ global_output_type \in GlobalOutputTypes
  /\ estimator \in [output_type : OutputTypes]
  /\ fitted = NotFitted
  /\ pc = "idle"
  /\ op = "none"
  /\ args = NoArgs
  /\ X = NoArray
  /\ y = NoArray
  /\ out_type = "none"
  /\ preds = NoArray
  /\ prev_output_type = "none"
  /\ pending = NoOutcome
  /\ ret = NoOutcome
  /\ trace = <<>>
  /\ entry = NoEntry
  /\ raised = "none"
  /\ train = NoTrain
  /\ lastPredict = NoPredict

\* ------------------------------------------------------------ the caller
\* cuml.set_global_output_type, between calls
SetGlobalOutputType(t) ==
  /\ pc = "idle"
  /\ t # global_output_type
  /\ global_output_type' = t
  /\ lastPredict' = NoPredict
  /\ UNCHANGED <<estimator, fitted, pc, op, args, locals, ret, trace, entry,
                 raised, train>>

Enter(o, a, first) ==
  /\ pc = "idle"
  /\ pc' = first
  /\ op' = o
  /\ args' = a
  /\ X' = a.X
  /\ y' = a.y
  /\ trace' = <<>>
  /\ entry' = [mode |-> global_output_type, fitted |-> fitted]
  /\ UNCHANGED <<global_output_type, estimator, fitted, out_type, preds,
                 prev_output_type, pending, ret, raised, train>>

CallFit(X0, y0) ==
  /\ Enter("fit", [X |-> X0, y |-> y0], "fit35")
  /\ lastPredict' = NoPredict

CallPredict(X0) ==
  /\ Enter("predict", [X |-> X0, y |-> NoArray], "predict41")
  /\ UNCHANGED lastPredict

CallDecisionFunction(X0) ==
  /\ Enter("decision_function", [X |-> X0, y |-> NoArray], "df47")
  /\ UNCHANGED lastPredict

\* the call has ended: its frame is gone
EndCall ==
  /\ pc = "done"
  /\ pc' = "idle"
  /\ op' = "none"
  /\ args' = NoArgs
  /\ X' = NoArray
  /\ y' = NoArray
  /\ out_type' = "none"
  /\ preds' = NoArray
  /\ prev_output_type' = "none"
  /\ pending' = NoOutcome
  /\ ret' = NoOutcome
  /\ trace' = <<>>
  /\ entry' = NoEntry
  /\ raised' = "none"
  /\ UNCHANGED <<global_output_type, estimator, fitted, train>>

\* the call has ended and nothing of it is kept
Return ==
  /\ EndCall
  /\ UNCHANGED lastPredict

\* a predict call has returned and the caller keeps its X and its result
ReturnObserved ==
  /\ op = "predict"
  /\ ret.kind = "return"
  /\ EndCall
  /\ lastPredict' = [set |-> TRUE, X |-> args.X, val |-> ret.val]

\* an error leaves the frame of a method that has no handler
Propagate(e) ==
  /\ ret' = Raised(e)
  /\ raised' = e
  /\ pc' = "done"

\* ------------------------------------------------------------------ fit
\* FitConvertX with the output-type scope opened before the conversion
FitConvertXInScope ==
  /\ pc = "fit35"
  /\ global_output_type' = "numpy"
  /\ LET r == input_to_host_array(X) IN
       /\ trace' = Append(trace, Event("convert", "X", <<X.rep>>))
       /\ IF r.ok
          THEN /\ X' = r.val[1]
               /\ pc' = "fit36"
               /\ UNCHANGED <<ret, raised>>
          ELSE /\ Propagate(r.err)
               /\ UNCHANGED X
  /\ UNCHANGED <<estimator, fitted, op, args, y, out_type, preds,
                 prev_output_type, pending, entry, train, lastPredict>>

\* X, _, _, _, _ = input_to_host_array(X)
FitConvertX ==
  /\ pc = "fit35"
  /\ LET r == input_to_host_array(X) IN
       /\ trace' = Append(trace, Event("convert", "X", <<X.rep>>))
       /\ IF r.ok
          THEN /\ X' = r.val[1]
               /\ pc' = "fit36"
               /\ UNCHANGED <<ret, raised>>
          ELSE /\ Propagate(r.err)
               /\ UNCHANGED X
  /\ UNCHANGED <<global_output_type, estimator, fitted, op, args, y,
                 out_type, preds, prev_output_type, pending, entry, train,
                 lastPredict>>

\* y, _, _, _, _ = input_to_host_array(y)
FitConvertY ==
  /\ pc = "fit36"
  /\ LET r == input_to_host_array(y) IN
       /\ trace' = Append(trace, Event("convert", "y", <<y.rep>>))
       /\ IF r.ok
          THEN /\ y' = r.val[1]
               /\ pc' = "fit37"
               /\ UNCHANGED <<ret, raised>>
          ELSE /\ Propagate(r.err)
               /\ UNCHANGED y
  /\ UNCHANGED <<global_output_type, estimator, fitted, op, args, X,
                 out_type, preds, prev_output_type, pending, entry, train,
                 lastPredict>>

\* with using_output_type('numpy'):
FitEnter ==
  /\ pc = "fit37"
  /\ LET s == using_output_type_enter(global_output_type, "numpy") IN
       /\ prev_output_type' = s.prev
       /\ global_output_type' = s.now
  /\ trace' = Append(trace, Event("enter", "using_output_type", <<>>))
  /\ pc' = "fit38"
  /\ UNCHANGED <<estimator, fitted, op, args, X, y, out_type, preds,
                 pending, ret, entry, raised, train, lastPredict>>

\* FitCall that reports success without delegating to the wrapped fit
FitCallNotDelegated ==
  /\ pc = "fit38"
  /\ LET r == sk_fit(Logical(X), Logical(y)) IN
       /\ trace' = Append(trace, Event("lib", "fit", <<X.rep, y.rep>>))
       /\ IF r.ok
          THEN /\ train' = [set |-> TRUE, host |-> args.X.rep = HostRep,
                            X |-> Logical(args.X), y |-> Logical(args.y)]
               /\ pending' = Returned(SelfVal)
               /\ UNCHANGED <<raised, fitted>>
          ELSE /\ pending' = Raised(r.err)
               /\ raised' = r.err
               /\ UNCHANGED <<fitted, train>>
  /\ pc' = "fit_exit"
  /\ UNCHANGED <<global_output_type, estimator, op, args, X, y, out_type,
                 preds, prev_output_type, ret, entry, lastPredict>>

\* return super(OneVsOneClassifier, self).fit(X, y)
FitCall ==
  /\ pc = "fit38"
  /\ LET r == sk_fit(Logical(X), Logical(y)) IN
       /\ trace' = Append(trace, Event("lib", "fit", <<X.rep, y.rep>>))
       /\ IF r.ok
          THEN /\ fitted' = r.model
               /\ train' = [set |-> TRUE, host |-> args.X.rep = HostRep,
                            X |-> Logical(args.X), y |-> Logical(args.y)]
               /\ pending' = Returned(SelfVal)
               /\ UNCHANGED raised
          ELSE /\ pending' = Raised(r.err)
               /\ raised' = r.err
               /\ UNCHANGED <<fitted, train>>
  /\ pc' = "fit_exit"
  /\ UNCHANGED <<global_output_type, estimator, op, args, X, y, out_type,
                 preds, prev_output_type, ret, entry, lastPredict>>

\* FitExit that reinstalls the saved setting on normal return only
FitExitNoRestoreOnError ==
  /\ pc = "fit_exit"
  /\ global_output_type' = IF pending.kind = "raise"
                           THEN global_output_type
                           ELSE using_output_type_exit(prev_output_type)
  /\ trace' = Append(trace, Event("exit", "using_output_type", <<>>))
  /\ ret' = pending
  /\ pc' = "done"
  /\ UNCHANGED <<estimator, fitted, op, args, X, y, out_type, preds,
                 prev_output_type, pending, entry, raised, train,
                 lastPredict>>

\* leaving the with block, by return or by exception
FitExit ==
  /\ pc = "fit_exit"
  /\ global_output_type' = using_output_type_exit(prev_output_type)
  /\ trace' = Append(trace, Event("exit", "using_output_type", <<>>))
  /\ ret' = pending
  /\ pc' = "done"
  /\ UNCHANGED <<estimator, fitted, op, args, X, y, out_type, preds,
                 prev_output_type, pending, entry, raised, train,
                 lastPredict>>

\* -------------------------------------------------------------- predict
\* PredictQuery asking about the converted X instead of the supplied one
PredictQueryAfterConvert ==
  /\ pc = "predict41"
  /\ LET h == input_to_host_array(X).val[1] IN
       /\ trace' = Append(trace,
                          Event("query", "_get_output_type", <<h.rep>>))
       /\ \E r \in _get_output_type(estimator, global_output_type, h) :
            IF r.ok
            THEN /\ out_type' = r.val
                 /\ pc' = "predict42"
                 /\ UNCHANGED <<ret, raised>>
            ELSE /\ Propagate(r.err)
                 /\ UNCHANGED out_type
  /\ UNCHANGED <<global_output_type, estimator, fitted, op, args, X, y,
                 preds, prev_output_type, pending, entry, train,
                 lastPredict>>

\* out_type = self.estimator._get_output_type(X)
PredictQuery ==
  /\ pc = "predict41"
  /\ trace' = Append(trace, Event("query", "_get_output_type", <<X.rep>>))
  /\ \E r \in _get_output_type(estimator, global_output_type, X) :
       IF r.ok
       THEN /\ out_type' = r.val
            /\ pc' = "predict42"
            /\ UNCHANGED <<ret, raised>>
       ELSE /\ Propagate(r.err)
            /\ UNCHANGED out_type
  /\ UNCHANGED <<global_output_type, estimator, fitted, op, args, X, y,
                 preds, prev_output_type, pending, entry, train,
                 lastPredict>>

\* PredictConvert that hands X on as the caller supplied it
PredictConvertSkipped ==
  /\ pc = "predict42"
  /\ LET r == input_to_host_array(X) IN
       /\ trace' = Append(trace, Event("convert", "X", <<X.rep>>))
       /\ IF r.ok
          THEN /\ pc' = "predict43"
               /\ UNCHANGED <<X, ret, raised>>
          ELSE /\ Propagate(r.err)
               /\ UNCHANGED X
  /\ UNCHANGED <<global_output_type, estimator, fitted, op, args, y,
                 out_type, preds, prev_output_type, pending, entry, train,
                 lastPredict>>

\* X, _, _, _, _ = input_to_host_array(X)
PredictConvert ==
  /\ pc = "predict42"
  /\ LET r == input_to_host_array(X) IN
       /\ trace' = Append(trace, Event("convert", "X", <<X.rep>>))
       /\ IF r.ok
          THEN /\ X' = r.val[1]
               /\ pc' = "predict43"
               /\ UNCHANGED <<ret, raised>>
          ELSE /\ Propagate(r.err)
               /\ UNCHANGED X
  /\ UNCHANGED <<global_output_type, estimator, fitted, op, args, y,
                 out_type, preds, prev_output_type, pending, entry, train,
                 lastPredict>>

\* PredictCall wrapped in a handler that swallows the wrapped error
PredictCallSwallow ==
  /\ pc = "predict43"
  /\ LET r == sk_predict(fitted, Logical(X)) IN
       /\ trace' = Append(trace, Event("lib", "predict", <<X.rep>>))
       /\ preds' = r.val
       /\ raised' = IF r.ok THEN raised ELSE r.err
       /\ pc' = "predict44"
       /\ UNCHANGED ret
  /\ UNCHANGED <<global_output_type, estimator, fitted, op, args, X, y,
                 out_type, prev_output_type, pending, entry, train,
                 lastPredict>>

\* preds = super(OneVsOneClassifier, self).predict(X)
PredictCall ==
  /\ pc = "predict43"
  /\ LET r == sk_predict(fitted, Logical(X)) IN
       /\ trace' = Append(trace, Event("lib", "predict", <<X.rep>>))
       /\ IF r.ok
          THEN /\ preds' = r.val
               /\ pc' = "predict44"
               /\ UNCHANGED <<ret, raised>>
          ELSE /\ Propagate(r.err)
               /\ UNCHANGED preds
  /\ UNCHANGED <<global_output_type, estimator, fitted, op, args, X, y,
                 out_type, prev_output_type, pending, entry, train,
                 lastPredict>>

\* PredictOutput that returns the wrapped result as it is
PredictOutputUnconverted ==
  /\ pc = "predict44"
  /\ trace' = Append(trace, Event("to_output", out_type, <<preds.rep>>))
  /\ ret' = Returned(preds)
  /\ pc' = "done"
  /\ UNCHANGED <<global_output_type, estimator, fitted, op, args, X, y,
                 out_type, preds, prev_output_type, pending, entry, raised,
                 train, lastPredict>>

\* return _to_output(preds, out_type)
PredictOutput ==
  /\ pc = "predict44"
  /\ trace' = Append(trace, Event("to_output", out_type, <<preds.rep>>))
  /\ ret' = Returned(_to_output(preds, out_type))
  /\ pc' = "done"
  /\ UNCHANGED <<global_output_type, estimator, fitted, op, args, X, y,
                 out_type, preds, prev_output_type, pending, entry, raised,
                 train, lastPredict>>

\* ---------------------------------------------------- decision_function
\* out_type = self.estimator._get_output_type(X)
DfQuery ==
  /\ pc = "df47"
  /\ trace' = Append(trace, Event("query", "_get_output_type", <<X.rep>>))
  /\ \E r \in _get_output_type(estimator, global_output_type, X) :
       IF r.ok
       THEN /\ out_type' = r.val
            /\ pc' = "df48"
            /\ UNCHANGED <<ret, raised>>
       ELSE /\ Propagate(r.err)
            /\ UNCHANGED out_type
  /\ UNCHANGED <<global_output_type, estimator, fitted, op, args, X, y,
                 preds, prev_output_type, pending, entry, train,
                 lastPredict>>

\* X, _, _, _, _ = input_to_host_array(X)
DfConvert ==
  /\ pc = "df48"
  /\ LET r == input_to_host_array(X) IN
       /\ trace' = Append(trace, Event("convert", "X", <<X.rep>>))
       /\ IF r.ok
          THEN /\ X' = r.val[1]
               /\ pc' = "df49"
               /\ UNCHANGED <<ret, raised>>
          ELSE /\ Propagate(r.err)
               /\ UNCHANGED X
  /\ UNCHANGED <<global_output_type, estimator, fitted, op, args, y,
                 out_type, preds, prev_output_type, pending, entry, train,
                 lastPredict>>

\* DfCall that installs the host output type and never reinstalls the old
DfCallLeavesMode ==
  /\ pc = "df49"
  /\ global_output_type' = "numpy"
  /\ LET r == sk_decision_function(fitted, Logical(X)) IN
       /\ trace' = Append(trace, Event("lib", "decision_function", <<X.rep>>))
       /\ IF r.ok
          THEN /\ preds' = r.val
               /\ pc' = "df50"
               /\ UNCHANGED <<ret, raised>>
          ELSE /\ Propagate(r.err)
               /\ UNCHANGED preds
  /\ UNCHANGED <<estimator, fitted, op, args, X, y, out_type,
                 prev_output_type, pending, entry, train, lastPredict>>

\* df = super(OneVsOneClassifier, self).decision_function(X)
DfCall ==
  /\ pc = "df49"
  /\ LET r == sk_decision_function(fitted, Logical(X)) IN
       /\ trace' = Append(trace, Event("lib", "decision_function", <<X.rep>>))
       /\ IF r.ok
          THEN /\ preds' = r.val
               /\ pc' = "df50"
               /\ UNCHANGED <<ret, raised>>
          ELSE /\ Propagate(r.err)
               /\ UNCHANGED preds
  /\ UNCHANGED <<global_output_type, estimator, fitted, op, args, X, y,
                 out_type, prev_output_type, pending, entry, train,
                 lastPredict>>

\* DfOutput that returns the wrapped result as it is
DfOutputUnconverted ==
  /\ pc = "df50"
  /\ trace' = Append(trace, Event("to_output", out_type, <<preds.rep>>))
  /\ ret' = Returned(preds)
  /\ pc' = "done"
  /\ UNCHANGED <<global_output_type, estimator, fitted, op, args, X, y,
                 out_type, preds, prev_output_type, pending, entry, raised,
                 train, lastPredict>>

\* return _to_output(df, out_type)
DfOutput ==
  /\ pc = "df50"
  /\ trace' = Append(trace, Event("to_output", out_type, <<preds.rep>>))
  /\ ret' = Returned(_to_output(preds, out_type))
  /\ pc' = "done"
  /\ UNCHANGED <<global_output_type, estimator, fitted, op, args, X, y,
                 out_type, preds, prev_output_type, pending, entry, raised,
                 train, lastPredict>>

\* ------------------------------------------------------- specification
Next ==
  \/ \E t \in GlobalOutputTypes : SetGlobalOutputType(t)
  \/ \E X0 \in FeatureArrays, y0 \in LabelArrays : CallFit(X0, y0)
  \/ \E X0 \in FeatureArrays : CallPredict(X0)
  \/ \E X0 \in FeatureArrays : CallDecisionFunction(X0)
  \/ FitConvertX
  \/ FitConvertY
  \/ FitEnter
  \/ FitCall
  \/ FitExit
  \/ PredictQuery
  \/ PredictConvert
  \/ PredictCall
  \/ PredictOutput
  \/ DfQuery
  \/ DfConvert
  \/ DfCall
  \/ DfOutput
  \/ Return

Spec == Init /\ [][Next]_vars

\* The same program with a caller that fits on host arrays and may keep
\* the X and the result of a predict call to compare later calls with.
HostFeatureArrays == {a \in FeatureArrays : a.rep = HostRep}
HostLabelArrays == {a \in LabelArrays : a.rep = HostRep}

NextObserved ==
  \/ \E t \in GlobalOutputTypes : SetGlobalOutputType(t)
  \/ \E X0 \in HostFeatureArrays, y0 \in HostLabelArrays : CallFit(X0, y0)
  \/ \E X0 \in FeatureArrays : CallPredict(X0)
  \/ \E X0 \in FeatureArrays : CallDecisionFunction(X0)
  \/ FitConvertX
  \/ FitConvertY
  \/ FitEnter
  \/ FitCall
  \/ FitExit
  \/ PredictQuery
  \/ PredictConvert
  \/ PredictCall
  \/ PredictOutput
  \/ DfQuery
  \/ DfConvert
  \/ DfCall
  \/ DfOutput
  \/ Return
  \/ ReturnObserved

SpecObserved == Init /\ [][NextObserved]_vars

\* ------------------------------------------------------------- claims
LibEvents == {i \in 1..Len(trace) : trace[i].ev = "lib"}
HasEvent(e) == \E i \in 1..Len(trace) : trace[i].ev = e
PredictLike == {"predict", "decision_function"}

\* C1: every array handed to a wrapped method (X and y of fit, X of predict
\* and of decision_function) is in the host representation.
C1_LibrarySeesHostOnly ==
  \A i \in LibEvents :
    \A k \in 1..Len(trace[i].reps) : trace[i].reps[k] = HostRep

C1_Witness ==
  /\ pc = "done"
  /\ op = "predict"
  /\ args.X.rep = "cudf"
  /\ LibEvents # {}

\* C2: when a call of fit, predict or decision_function ends, by return or
\* by error, the global output-type setting is what it was at call entry.
C2_SettingRestored ==
  pc = "done" => global_output_type = entry.mode

C2_Witness ==
  /\ pc = "done"
  /\ op = "fit"
  /\ ret = Raised("ValueError")
  /\ entry.mode = "cudf"
  /\ HasEvent("enter")

\* C3: each wrapped method (fit, predict, decision_function) is invoked
\* with the global output-type setting forced to the host type.
C3_LibraryRunsInHostMode ==
  \A i \in LibEvents : trace[i].mode = HostRep

\* C4 as stated: two predict calls on the same estimator whose X differ
\* only in representation return results in the same representation.
C4_SameRepForAnyInputRep ==
  ( /\ pc = "done"
    /\ op = "predict"
    /\ ret.kind = "return"
    /\ lastPredict.set
    /\ Logical(lastPredict.X) = Logical(args.X) )
  => ret.val.rep = lastPredict.val.rep

\* C4 as amended: the result of predict is in the representation that the
\* estimator's output-type query names for the X the caller supplied: the
\* global setting when one is set, else the estimator's declared output
\* type when that is a concrete one, else the representation of X.
C4_RepFollowsQuery ==
  (pc = "done" /\ op = "predict" /\ ret.kind = "return")
  => ret.val.rep = IF entry.mode # "None" THEN entry.mode
                   ELSE IF estimator.output_type # "input"
                        THEN estimator.output_type
                        ELSE args.X.rep

C4_Witness ==
  /\ pc = "done"
  /\ op = "predict"
  /\ ret.kind = "return"
  /\ entry.mode = "None"
  /\ estimator.output_type = "input"
  /\ args.X.rep = "cudf"
  /\ lastPredict.set
  /\ lastPredict.val.rep = "cupy"

\* C5: decision_function returns its result in the representation in
\* which predict returned its result for the same classifier and same X.
C5_DfRepAsPredict ==
  ( /\ pc = "done"
    /\ op = "decision_function"
    /\ ret.kind = "return"
    /\ lastPredict.set
    /\ lastPredict.X = args.X )
  => ret.val.rep = lastPredict.val.rep

C5_Witness ==
  /\ pc = "done"
  /\ op = "decision_function"
  /\ ret.kind = "return"
  /\ lastPredict.set
  /\ lastPredict.X = args.X
  /\ ret.val.rep = "cupy"

\* what the unwrapped library gives on the same data in host representation
Unwrapped(Xd) ==
  IF train.set
  THEN sk_predict(sk_fit(train.X, train.y).model, Xd)
  ELSE sk_predict(NotFitted, Xd)

C7_ErrorsPropagate ==
  pc = "done" =>
    /\ raised # "none" => ret = Raised(raised)
    /\ ret.kind = "raise" => ret.err = raised
    /\ ret.kind \in {"return", "raise"}

C7_Witness ==
  /\ pc = "done"
  /\ op = "predict"
  /\ Len(trace) = 3
  /\ ret = Raised("NotFittedError")

\* C8: predict and decision_function change neither the fitted model nor
\* the global setting, the adapter keeps nothing of a call once it has
\* ended, and predict on an X it was given before returns what it returned
\* before.
C8_NoStateOfItsOwn ==
  [][ /\ op \in PredictLike =>
           /\ fitted' = fitted
           /\ global_output_type' = global_output_type
           /\ estimator' = estimator
      /\ pc' = "idle" =>
           /\ X' = NoArray /\ y' = NoArray /\ out_type' = "none"
           /\ preds' = NoArray /\ prev_output_type' = "none"
           /\ pending' = NoOutcome
      /\ ( /\ pc' = "done"
           /\ op' = "predict"
           /\ ret'.kind = "return"
           /\ lastPredict.set
           /\ lastPredict.X = args.X )
         => ret'.val = lastPredict.val ]_vars

C8_Witness ==
  /\ pc = "done"
  /\ op = "predict"
  /\ ret.kind = "return"
  /\ lastPredict.set
  /\ lastPredict.X = args.X
  /\ args.X.rep = "cudf"
  /\ ret.val = lastPredict.val

StepOrder == <<"query", "convert", "lib", "to_output">>

\* C9: predict and decision_function query the output type with the X the
\* caller supplied, then convert X, then invoke the wrapped method on the
\* converted X, then convert its result to the queried type.
C9_StepOrder ==
  op \in PredictLike =>
    /\ Len(trace) <= 4
    /\ \A i \in 1..Len(trace) : trace[i].ev = StepOrder[i]
    /\ Len(trace) >= 1 => trace[1].reps = <<args.X.rep>>
    /\ Len(trace) >= 2 => trace[2].reps = <<args.X.rep>>
    /\ Len(trace) >= 3 =>
         /\ trace[3].name = op
         /\ X = input_to_host_array(args.X).val[1]
    /\ Len(trace) = 4 =>
         /\ trace[4].name = out_type
         /\ ret = Returned(_to_output(preds, out_type))
         /\ Ok(out_type) \in
              _get_output_type(estimator, entry.mode, args.X)

C9_Witness ==
  /\ pc = "done"
  /\ op = "decision_function"
  /\ Len(trace) = 4
  /\ entry.mode = "None"
  /\ estimator.output_type = "input"
  /\ args.X.rep = "cudf"
  /\ ret.val.rep = "cudf"

\* C10: fit converts X and then y before it touches the global setting,
\* and when a conversion raises, the wrapped fit is not invoked and the
\* global setting and the fitted model stay as they were at call entry.
C10_ConvertBeforeScope ==
  [][ /\ (op = "fit" /\ pc \in {"fit35", "fit36"}) =>
           /\ global_output_type' = global_output_type
           /\ fitted' = fitted
      /\ pc' = "fit38" =>
           /\ Len(trace') = 3
           /\ trace'[1].ev = "convert" /\ trace'[1].name = "X"
           /\ trace'[2].ev = "convert" /\ trace'[2].name = "y"
           /\ trace'[3].ev = "enter"
           /\ \A i \in 1..2 : trace'[i].mode = entry.mode
      /\ (pc' = "done" /\ op' = "fit" /\ ret' = Raised("TypeError")) =>
           /\ \A i \in 1..Len(trace') : trace'[i].ev = "convert"
           /\ fitted' = entry.fitted
           /\ global_output_type' = entry.mode ]_vars

C10_Witness ==
  /\ pc = "done"
  /\ op = "fit"
  /\ ret = Raised("TypeError")
  /\ Len(trace) = 2
  /\ args.X.rep = "cudf"
  /\ entry.mode = "cudf"
  /\ entry.fitted.is_fitted

====
